---- MODULE Spec2Model ----
(***************************************************************************)
(* LeadForge frontend: the upload coordinator (App.vue), the column mapper *)
(* (ColumnMapping.vue), the business directory with its website finder     *)
(* (BusinessList.vue) and the email modal (EmailModal, second component of *)
(* ColumnMapping.vue, lines 255-406).  One event loop: every action below  *)
(* is one handler run up to its next await, or the continuation that runs  *)
(* when the awaited request settles.                                       *)
(***************************************************************************)
EXTENDS Integers, Sequences, FiniteSets, TLC

\* ------------------------------------------------------------------ bounds
MaxParse == 1        \* CSV parses running at once
MaxUpload == 2       \* upload requests in flight at once
MaxFetch == 2        \* directory fetches in flight at once
MaxLookup == 2       \* website lookups in flight at once
MaxGenerate == 2     \* generation requests in flight at once
MaxClear == 1        \* clear requests in flight at once
MaxTotalPages == 2   \* largest total_pages a response carries

\* the user stops pressing Next one page past the largest total
MaxPageNo == MaxTotalPages + 1

\* ------------------------------------------------------------ JS values
Null == "null"                       \* null / undefined
None == << >>                        \* a null object reference
Some(x) == << x >>
Truthy(v) == v # Null /\ v # ""      \* truthiness of a string-or-null value
OrElse(a, b) == IF Truthy(a) THEN a ELSE b      \* a || b

\* --------------------------------------------------------------- inputs
\* File handles the user can pick, with the properties the code reads.
FileNames == {"leads.csv", "notes.pdf"}
FileType == [n \in FileNames |-> IF n = "leads.csv" THEN "text/csv" ELSE "application/pdf"]
FileFields == [n \in FileNames |-> <<"biz", "cat", "loc">>]
FileRows == [n \in FileNames |-> 6]
\* the error field a failed response may carry (Null: no response or no field)
ErrorFields == {Null, "", "x"}
\* error.message of a rejected request
ErrorMessages == {"", "Network Error"}
ParseErrors == {"bad"}
DisplayNames == {""}
FilterTexts == {<< >>, <<"A">>}
Websites == {Null, "http://w"}
BusinessIds == {0, 1}
Emails == {Null, "", "Hello"}
RecordCounts == {3}             \* records_count of an upload response

Business(id, w) ==
    [id |-> id, business_name |-> <<"Biz", ToString(id)>>, website |-> w]
ResponsePages ==
    { << >>,
      << Business(0, Null), Business(1, Null) >>,
      << Business(0, "http://w"), Business(1, Null) >> }
\* for paging and filtering a response lists nothing or something
ListedPages == { << >>, << Business(0, Null), Business(1, Null) >> }

\* ---------------------------------------------------------------- state
VARIABLES
    \* App.vue data()
    selectedFile, isDragover, isUploading, uploadStatus, uploadError,
    showColumnMapping, csvPreviewData, csvColumns, columnMapping,
    \* ColumnMapping.vue data() of the mounted instance (None when unmounted)
    mapping,
    \* BusinessList.vue data()
    businesses, loading, error, filters, columnMappingData, currentPage,
    totalPages, isSearchingWebsite, isEmailModalOpen, selectedBusiness,
    \* EmailModal data() of the mounted instance
    email, modalLoading, modalError, clipboard,
    \* pending continuations: Papa.parse callbacks (the file each one closes over)
    \* and awaited requests (what the continuation closes over, or their number)
    mounted, parsing, uploadReqs, fetchReqs, mappingReqs, lookupReqs,
    clearReqs, generateReqs,
    \* history, per awaited fetch: a fetch issued after it has already settled
    overtaken,
    \* history: a clear has succeeded and no fetch has been issued since
    clearedSince,
    \* history: the last handler run, the toasts it fired, the requests it sent
    last,
    \* history: total_pages of the last applied response that carried one
    lastTotalPages,
    \* history: a file was selected or dropped since the last failed upload
    selectedSinceFail

appVars == << selectedFile, isDragover, isUploading, uploadStatus, uploadError,
              showColumnMapping, csvPreviewData, csvColumns, columnMapping >>
listVars == << businesses, filters, currentPage, totalPages >>
fetchVars == << loading, error, fetchReqs, overtaken, clearedSince >>
lookupVars == << isSearchingWebsite, lookupReqs >>
modalVars == << isEmailModalOpen, selectedBusiness, email, modalLoading,
                modalError, clipboard, generateReqs >>
miscVars == << columnMappingData, mappingReqs, clearReqs, mounted >>
dirVars == << listVars, fetchVars, lookupVars, modalVars, miscVars, lastTotalPages >>
vars == << appVars, mapping, parsing, uploadReqs, dirVars, last, selectedSinceFail >>

\* ------------------------------------------------------------- helpers
\* message texts are sequences of string pieces: <<"Found website for ", name>>
Toast(type, message) == [type |-> type, message |-> message]
\* a handler run: its name, its input, the toasts it fired, the requests it sent
Did(op, input, toasts, sent) ==
    [op |-> op, input |-> input, toasts |-> toasts, sent |-> sent]
Status(type, message) == [type |-> type, message |-> message]
RemoveAt(s, i) == SubSeq(s, 1, i - 1) \o SubSeq(s, i + 1, Len(s))
Min(a, b) == IF a < b THEN a ELSE b

\* the overlay of an open modal covers the page; before mount there is no page
Interactive == mounted /\ ~isEmailModalOpen

requiredFields == <<"business_name", "industry", "location">>
Fields == {requiredFields[i] : i \in 1..Len(requiredFields)}
InitialMapping ==
    [f \in Fields |->
        [column |-> "",
         displayName |-> CASE f = "business_name" -> "Business Name"
                           [] f = "industry" -> "Industry"
                           [] OTHER -> "Location"]]

\* String.prototype.toLowerCase on the characters the filters can hold
LowerChar(c) == IF c = "A" THEN "a" ELSE c
ToLowerCase(s) == [i \in 1..Len(s) |-> LowerChar(s[i])]

\* JSON.stringify of the mapping object: its keys in insertion order
Stringify(m) ==
    [i \in 1..Len(requiredFields) |->
        << requiredFields[i], m[requiredFields[i]].column,
           m[requiredFields[i]].displayName >>]

\* Papa.parse(file, {header: true, preview: 5})
ParsedData(file) == [i \in 1..Min(FileRows[file], 5) |-> i]
ParsedFields(file) == FileFields[file]

\* ------------------------------------------------------ BusinessList.vue
\* variant: the filter strings sent as typed
ParamsAsTyped(page, flt) ==
    [kind |-> "fetch",
     page |-> page,
     per_page |-> 10,
     business_name |-> flt.business_name,
     industry |-> flt.industry,
     location |-> flt.location]

Params(page, flt) ==
    [kind |-> "fetch",
     page |-> page,
     per_page |-> 10,
     business_name |-> ToLowerCase(flt.business_name),
     industry |-> ToLowerCase(flt.industry),
     location |-> ToLowerCase(flt.location)]

\* request i settles: the fetches issued before it that are still awaited
\* are from now on answered after a later one
Settle(i) ==
    RemoveAt([j \in 1..Len(overtaken) |-> IF j < i THEN TRUE ELSE overtaken[j]], i)

\* fetchBusinesses() up to its await, for the page and filters it reads
fetchBusinesses(page, flt) ==
    /\ loading' = TRUE
    /\ error' = Null
    /\ fetchReqs' = Append(fetchReqs, Params(page, flt))
    /\ overtaken' = Append(overtaken, FALSE)
    /\ clearedSince' = FALSE

Init ==
    /\ selectedFile = Null
    /\ isDragover = FALSE
    /\ isUploading = FALSE
    /\ uploadStatus = None
    /\ uploadError = Null
    /\ showColumnMapping = FALSE
    /\ csvPreviewData = << >>
    /\ csvColumns = << >>
    /\ columnMapping = None
    /\ mapping = None
    /\ businesses = << >>
    /\ loading = FALSE
    /\ error = Null
    /\ filters = [business_name |-> << >>, industry |-> << >>, location |-> << >>]
    /\ columnMappingData = "default"
    /\ currentPage = 1
    /\ totalPages = 1
    /\ isSearchingWebsite = None
    /\ isEmailModalOpen = FALSE
    /\ selectedBusiness = None
    /\ email = ""
    /\ modalLoading = FALSE
    /\ modalError = Null
    /\ clipboard = Null
    /\ mounted = FALSE
    /\ parsing = << >>
    /\ uploadReqs = 0
    /\ fetchReqs = << >>
    /\ overtaken = << >>
    /\ clearedSince = FALSE
    /\ mappingReqs = 0
    /\ lookupReqs = << >>
    /\ clearReqs = 0
    /\ generateReqs = << >>
    /\ last = Did("init", Null, << >>, << >>)
    /\ lastTotalPages = None
    /\ selectedSinceFail = TRUE

\* mounted(): fetchBusinesses() and fetchColumnMapping(), each up to its await
Mount ==
    /\ ~mounted
    /\ mounted' = TRUE
    /\ fetchBusinesses(currentPage, filters)
    /\ mappingReqs' = mappingReqs + 1
    /\ last' = Did("mounted", Null, << >>,
                   << Params(currentPage, filters), [kind |-> "column_mapping"] >>)
    /\ UNCHANGED << appVars, mapping, parsing, uploadReqs, listVars, lookupVars,
                    modalVars, columnMappingData, clearReqs, lastTotalPages,
                    selectedSinceFail >>

\* ---------------------------------------------------------------- App.vue
\* variant: a rejected choice also drops the file chosen before
AcceptFileOrReset(file, rejectMessage) ==
    IF file # Null /\ FileType[file] = "text/csv"
    THEN /\ selectedFile' = file
         /\ uploadStatus' = None
         /\ uploadError' = Null
         /\ selectedSinceFail' = TRUE
    ELSE /\ uploadStatus' = Some(Status("error", rejectMessage))
         /\ selectedFile' = Null
         /\ UNCHANGED << uploadError, selectedSinceFail >>

\* variant: the MIME check dropped, any chosen file is accepted
AcceptAnyFile(file, rejectMessage) ==
    IF file # Null
    THEN /\ selectedFile' = file
         /\ uploadStatus' = None
         /\ uploadError' = Null
         /\ selectedSinceFail' = TRUE
    ELSE /\ uploadStatus' = Some(Status("error", rejectMessage))
         /\ UNCHANGED << selectedFile, uploadError, selectedSinceFail >>

\* handleFileSelect(event) and handleFileDrop(event) share this body
AcceptFile(file, rejectMessage) ==
    IF file # Null /\ FileType[file] = "text/csv"
    THEN /\ selectedFile' = file
         /\ uploadStatus' = None
         /\ uploadError' = Null
         /\ selectedSinceFail' = TRUE
    ELSE /\ uploadStatus' = Some(Status("error", rejectMessage))
         /\ UNCHANGED << selectedFile, uploadError, selectedSinceFail >>

handleFileSelect(file) ==
    /\ Interactive
    /\ AcceptFile(file, <<"Please select a valid CSV file">>)
    /\ last' = Did("handleFileSelect", file, << >>, << >>)
    /\ UNCHANGED << isDragover, isUploading, showColumnMapping, csvPreviewData,
                    csvColumns, columnMapping, mapping, parsing, uploadReqs, dirVars >>

handleFileDrop(file) ==
    /\ Interactive
    /\ isDragover' = FALSE
    /\ AcceptFile(file, <<"Please drop a valid CSV file">>)
    /\ last' = Did("handleFileDrop", file, << >>, << >>)
    /\ UNCHANGED << isUploading, showColumnMapping, csvPreviewData,
                    csvColumns, columnMapping, mapping, parsing, uploadReqs, dirVars >>

\* the Preview & Upload button and previewFile() up to Papa.parse's callback
previewFile ==
    /\ Interactive
    /\ ~(selectedFile = Null \/ isUploading)
    /\ selectedFile # Null
    /\ Len(parsing) < MaxParse
    /\ parsing' = Append(parsing, selectedFile)
    /\ last' = Did("previewFile", Null, << >>, << >>)
    /\ UNCHANGED << appVars, mapping, uploadReqs, dirVars, selectedSinceFail >>

\* Papa.parse complete callback; showing the mapper mounts a fresh instance
parseComplete(i) ==
    /\ i \in 1..Len(parsing)
    /\ csvPreviewData' = ParsedData(parsing[i])
    /\ csvColumns' = ParsedFields(parsing[i])
    /\ showColumnMapping' = TRUE
    /\ mapping' = IF showColumnMapping THEN mapping ELSE Some(InitialMapping)
    /\ parsing' = RemoveAt(parsing, i)
    /\ last' = Did("parseComplete", Null, << >>, << >>)
    /\ UNCHANGED << selectedFile, isDragover, isUploading, uploadStatus, uploadError,
                    columnMapping, uploadReqs, dirVars, selectedSinceFail >>

\* Papa.parse error callback
parseError(i, message) ==
    /\ i \in 1..Len(parsing)
    /\ uploadStatus' = Some(Status("error", <<"Error parsing CSV file: ", message>>))
    /\ parsing' = RemoveAt(parsing, i)
    /\ last' = Did("parseError", message, << >>, << >>)
    /\ UNCHANGED << selectedFile, isDragover, isUploading, uploadError,
                    showColumnMapping, csvPreviewData, csvColumns, columnMapping,
                    mapping, uploadReqs, dirVars, selectedSinceFail >>

\* variant: cancelling forgets the stored mapping
cancelMappingKeepsStored ==
    /\ Interactive
    /\ showColumnMapping
    /\ showColumnMapping' = FALSE
    /\ csvPreviewData' = << >>
    /\ csvColumns' = << >>
    /\ mapping' = None
    /\ last' = Did("cancelMapping", Null, << >>, << >>)
    /\ UNCHANGED << selectedFile, isDragover, isUploading, uploadStatus, uploadError,
                    parsing, uploadReqs, dirVars, selectedSinceFail, columnMapping >>

\* cancel() of the mapper and cancelMapping() of App; v-if unmounts the mapper
cancelMapping ==
    /\ Interactive
    /\ showColumnMapping
    /\ showColumnMapping' = FALSE
    /\ csvPreviewData' = << >>
    /\ csvColumns' = << >>
    /\ columnMapping' = None
    /\ mapping' = None
    /\ last' = Did("cancelMapping", Null, << >>, << >>)
    /\ UNCHANGED << selectedFile, isDragover, isUploading, uploadStatus, uploadError,
                    parsing, uploadReqs, dirVars, selectedSinceFail >>

\* --------------------------------------------------- ColumnMapping.vue
\* variant: some() in place of every()
isMappingValidSome(m) == \E i \in 1..Len(requiredFields) : Truthy(m[requiredFields[i]].column)

isMappingValid(m) == \A i \in 1..Len(requiredFields) : Truthy(m[requiredFields[i]].column)

\* variant: no header is ever reported as taken
isColumnMappedNever(m, column) == FALSE

isColumnMapped(m, column) == \E f \in DOMAIN m : m[f].column = column

\* :disabled of one <option> of the select of `field`
OptionDisabled(m, field, column) ==
    isColumnMapped(m, column) /\ m[field].column # column

\* the user picks an enabled option ("" is the placeholder option)
selectColumn(field, column) ==
    /\ Interactive
    /\ showColumnMapping
    /\ \/ column = ""
       \/ /\ \E k \in 1..Len(csvColumns) : csvColumns[k] = column
          /\ ~OptionDisabled(mapping[1], field, column)
    /\ mapping[1][field].column # column
    /\ mapping' = Some([mapping[1] EXCEPT ![field].column = column])
    /\ last' = Did("selectColumn", Null, << >>, << >>)
    /\ UNCHANGED << appVars, parsing, uploadReqs, dirVars, selectedSinceFail >>

\* the user edits the display-name input of `field`
setDisplayName(field, text) ==
    /\ Interactive
    /\ showColumnMapping
    /\ mapping[1][field].displayName # text
    /\ mapping' = Some([mapping[1] EXCEPT ![field].displayName = text])
    /\ last' = Did("setDisplayName", Null, << >>, << >>)
    /\ UNCHANGED << appVars, parsing, uploadReqs, dirVars, selectedSinceFail >>

\* :disabled of the Confirm Mapping button
ConfirmDisabled == ~isMappingValid(mapping[1])

\* variant: the mapper's initial mapping is sent in place of the confirmed one
UploadRequestInitial(file, m) ==
    [kind |-> "upload", file |-> file, column_mapping |-> Stringify(InitialMapping)]

UploadRequest(file, m) ==
    [kind |-> "upload", file |-> file, column_mapping |-> Stringify(m)]

\* confirm() of the mapper, confirmMapping(mapping) and uploadFile() up to its await
confirmMapping ==
    /\ Interactive
    /\ showColumnMapping
    /\ ~ConfirmDisabled
    /\ isMappingValid(mapping[1])
    /\ columnMapping' = mapping
    /\ showColumnMapping' = FALSE
    /\ mapping' = None
    /\ IF selectedFile = Null
       THEN /\ last' = Did("confirmMapping", mapping[1], << >>, << >>)
            /\ UNCHANGED << isUploading, uploadStatus, uploadError, uploadReqs >>
       ELSE /\ uploadReqs < MaxUpload
            /\ isUploading' = TRUE
            /\ uploadStatus' = None
            /\ uploadError' = Null
            /\ uploadReqs' = uploadReqs + 1
            /\ last' = Did("confirmMapping", mapping[1], << >>,
                           << UploadRequest(selectedFile, mapping[1]) >>)
    /\ UNCHANGED << selectedFile, isDragover, csvPreviewData, csvColumns, parsing,
                    dirVars, selectedSinceFail >>

\* variant: the success path forgets to clear the file selection
uploadSuccessKeepsFile(records_count) ==
    /\ uploadReqs > 0
    /\ Len(fetchReqs) < MaxFetch
    /\ uploadReqs' = uploadReqs - 1
    /\ uploadStatus' = Some(Status("success",
           <<"Successfully uploaded ", ToString(records_count), " records">>))
    /\ columnMapping' = None
    /\ fetchBusinesses(currentPage, filters)
    /\ isUploading' = FALSE
    /\ last' = Did("uploadSuccess", records_count,
                   << Toast("success", <<"File uploaded successfully">>) >>,
                   << Params(currentPage, filters) >>)
    /\ UNCHANGED << selectedFile, isDragover, uploadError, showColumnMapping,
                    csvPreviewData, csvColumns, mapping, parsing, listVars,
                    lookupVars, modalVars, miscVars, lastTotalPages,
                    selectedSinceFail >>

\* variant: success is only toasted, the status slot is left empty
uploadSuccessToastOnly(records_count) ==
    /\ uploadReqs > 0
    /\ Len(fetchReqs) < MaxFetch
    /\ uploadReqs' = uploadReqs - 1
    /\ selectedFile' = Null
    /\ columnMapping' = None
    /\ fetchBusinesses(currentPage, filters)
    /\ isUploading' = FALSE
    /\ last' = Did("uploadSuccess", records_count,
                   << Toast("success", <<"File uploaded successfully">>) >>,
                   << Params(currentPage, filters) >>)
    /\ UNCHANGED << isDragover, uploadError, showColumnMapping, csvPreviewData,
                    csvColumns, mapping, parsing, listVars, lookupVars, modalVars,
                    miscVars, lastTotalPages, selectedSinceFail, uploadStatus >>

\* uploadFile() after a 2xx response: the try block, then finally
uploadSuccess(records_count) ==
    /\ uploadReqs > 0
    /\ Len(fetchReqs) < MaxFetch
    /\ uploadReqs' = uploadReqs - 1
    /\ uploadStatus' = Some(Status("success",
           <<"Successfully uploaded ", ToString(records_count), " records">>))
    /\ selectedFile' = Null
    /\ columnMapping' = None
    /\ fetchBusinesses(currentPage, filters)
    /\ isUploading' = FALSE
    /\ last' = Did("uploadSuccess", records_count,
                   << Toast("success", <<"File uploaded successfully">>) >>,
                   << Params(currentPage, filters) >>)
    /\ UNCHANGED << isDragover, uploadError, showColumnMapping, csvPreviewData,
                    csvColumns, mapping, parsing, listVars, lookupVars, modalVars,
                    miscVars, lastTotalPages, selectedSinceFail >>

\* variant: the failure path clears the selection and the mapping as success does
uploadFailureClears(errorField) ==
    /\ uploadReqs > 0
    /\ uploadReqs' = uploadReqs - 1
    /\ uploadError' = OrElse(errorField, "Error uploading file")
    /\ isUploading' = FALSE
    /\ selectedSinceFail' = FALSE
    /\ selectedFile' = Null
    /\ columnMapping' = None
    /\ last' = Did("uploadFailure", errorField,
                   << Toast("error", << OrElse(errorField, "Error uploading file") >>) >>,
                   << >>)
    /\ UNCHANGED << isDragover, uploadStatus, showColumnMapping,
                    csvPreviewData, csvColumns, mapping, parsing, dirVars >>

\* uploadFile() after a rejected request: the catch block, then finally
uploadFailure(errorField) ==
    /\ uploadReqs > 0
    /\ uploadReqs' = uploadReqs - 1
    /\ uploadError' = OrElse(errorField, "Error uploading file")
    /\ isUploading' = FALSE
    /\ selectedSinceFail' = FALSE
    /\ last' = Did("uploadFailure", errorField,
                   << Toast("error", << OrElse(errorField, "Error uploading file") >>) >>,
                   << >>)
    /\ UNCHANGED << selectedFile, isDragover, uploadStatus, showColumnMapping,
                    csvPreviewData, csvColumns, columnMapping, mapping, parsing,
                    dirVars >>

\* variant: responses are sequenced, one answered after a later fetch is dropped
fetchSuccessSequenced(i, page, total_pages) ==
    /\ i \in 1..Len(fetchReqs)
    /\ fetchReqs' = RemoveAt(fetchReqs, i)
    /\ overtaken' = Settle(i)
    /\ IF overtaken[i]
       THEN UNCHANGED << businesses, totalPages, lastTotalPages >>
       ELSE /\ businesses' = page
            /\ totalPages' = total_pages
            /\ lastTotalPages' = Some(total_pages)
    /\ loading' = FALSE
    /\ last' = Did("fetchSuccess",
                   [businesses |-> page, total_pages |-> total_pages,
                    overtaken |-> overtaken[i],
                    current |-> fetchReqs[i] = Params(currentPage, filters)],
                   << >>, << >>)
    /\ UNCHANGED << appVars, mapping, parsing, uploadReqs, filters, currentPage, error,
                    clearedSince,
                    lookupVars, modalVars, miscVars, selectedSinceFail >>

\* fetchBusinesses() after a 2xx response
fetchSuccess(i, page, total_pages) ==
    /\ i \in 1..Len(fetchReqs)
    /\ fetchReqs' = RemoveAt(fetchReqs, i)
    /\ overtaken' = Settle(i)
    /\ businesses' = page
    /\ totalPages' = total_pages
    /\ loading' = FALSE
    /\ lastTotalPages' = Some(total_pages)
    /\ last' = Did("fetchSuccess",
                   [businesses |-> page, total_pages |-> total_pages,
                    overtaken |-> overtaken[i],
                    current |-> fetchReqs[i] = Params(currentPage, filters)],
                   << >>, << >>)
    /\ UNCHANGED << appVars, mapping, parsing, uploadReqs, filters, currentPage, error,
                    clearedSince,
                    lookupVars, modalVars, miscVars, selectedSinceFail >>

\* variant: the finally block missing, loading stays on after a failure
fetchFailureNoFinally(i, errorField) ==
    /\ i \in 1..Len(fetchReqs)
    /\ fetchReqs' = RemoveAt(fetchReqs, i)
    /\ overtaken' = Settle(i)
    /\ error' = OrElse(errorField, "Error fetching businesses")
    /\ last' = Did("fetchFailure", errorField,
                   << Toast("error", << OrElse(errorField, "Error fetching businesses") >>) >>,
                   << >>)
    /\ UNCHANGED << appVars, mapping, parsing, uploadReqs, listVars, lookupVars,
                    modalVars, miscVars, lastTotalPages, selectedSinceFail,
                    clearedSince, loading >>

\* variant: the fallback text is used whatever the backend sent
fetchFailureFallbackOnly(i, errorField) ==
    /\ i \in 1..Len(fetchReqs)
    /\ fetchReqs' = RemoveAt(fetchReqs, i)
    /\ overtaken' = Settle(i)
    /\ error' = "Error fetching businesses"
    /\ loading' = FALSE
    /\ last' = Did("fetchFailure", errorField,
                   << Toast("error", <<"Error fetching businesses">>) >>,
                   << >>)
    /\ UNCHANGED << appVars, mapping, parsing, uploadReqs, listVars, lookupVars,
                    modalVars, miscVars, lastTotalPages, selectedSinceFail,
                    clearedSince >>

\* fetchBusinesses() after a rejected request
fetchFailure(i, errorField) ==
    /\ i \in 1..Len(fetchReqs)
    /\ fetchReqs' = RemoveAt(fetchReqs, i)
    /\ overtaken' = Settle(i)
    /\ error' = OrElse(errorField, "Error fetching businesses")
    /\ loading' = FALSE
    /\ last' = Did("fetchFailure", errorField,
                   << Toast("error", << OrElse(errorField, "Error fetching businesses") >>) >>,
                   << >>)
    /\ UNCHANGED << appVars, mapping, parsing, uploadReqs, listVars, lookupVars,
                    modalVars, miscVars, lastTotalPages, selectedSinceFail,
                    clearedSince >>

\* fetchColumnMapping() after its response (a failure is only logged)
mappingResponse(ok) ==
    /\ mappingReqs > 0
    /\ mappingReqs' = mappingReqs - 1
    /\ columnMappingData' = IF ok THEN "server" ELSE columnMappingData
    /\ last' = Did("mappingResponse", ok, << >>, << >>)
    /\ UNCHANGED << appVars, mapping, parsing, uploadReqs, listVars, fetchVars,
                    lookupVars, modalVars, clearReqs, mounted, lastTotalPages,
                    selectedSinceFail >>

\* the user types in the filter input of `field`: v-model, then @input
filterInput(field, text) ==
    /\ Interactive
    /\ filters[field] # text
    /\ Len(fetchReqs) < MaxFetch
    /\ filters' = [filters EXCEPT ![field] = text]
    /\ fetchBusinesses(currentPage, [filters EXCEPT ![field] = text])
    /\ last' = Did("filterInput", Null, << >>,
                   << Params(currentPage, [filters EXCEPT ![field] = text]) >>)
    /\ UNCHANGED << appVars, mapping, parsing, uploadReqs, businesses, currentPage,
                    totalPages, lookupVars, modalVars, miscVars, lastTotalPages,
                    selectedSinceFail >>

\* the template's pagination block: v-if and the two :disabled bindings
PaginationShown == totalPages > 1
PreviousDisabled == currentPage = 1
\* variant: Next disabled on and past the last page
NextDisabledFromLast == currentPage >= totalPages
NextDisabled == currentPage = totalPages

changePage(page) ==
    /\ Len(fetchReqs) < MaxFetch
    /\ currentPage' = page
    /\ fetchBusinesses(page, filters)
    /\ last' = Did("changePage", Null, << >>, << Params(page, filters) >>)
    /\ UNCHANGED << appVars, mapping, parsing, uploadReqs, businesses, filters,
                    totalPages, lookupVars, modalVars, miscVars, lastTotalPages,
                    selectedSinceFail >>

clickPrevious ==
    /\ Interactive
    /\ PaginationShown
    /\ ~PreviousDisabled
    /\ changePage(currentPage - 1)

clickNext ==
    /\ Interactive
    /\ PaginationShown
    /\ ~NextDisabled
    /\ currentPage < MaxPageNo
    /\ changePage(currentPage + 1)

\* confirmClear(): the confirm() dialog, then clearData() up to its await
confirmClear(accepted) ==
    /\ Interactive
    /\ Len(businesses) > 0
    /\ IF accepted
       THEN /\ clearReqs < MaxClear
            /\ clearReqs' = clearReqs + 1
            /\ last' = Did("confirmClear", accepted, << >>, << [kind |-> "clear"] >>)
       ELSE /\ last' = Did("confirmClear", accepted, << >>, << >>)
            /\ UNCHANGED clearReqs
    /\ UNCHANGED << appVars, mapping, parsing, uploadReqs, listVars, fetchVars,
                    lookupVars, modalVars, columnMappingData, mappingReqs, mounted,
                    lastTotalPages, selectedSinceFail >>

\* variant: a successful clear leaves the filters as typed
clearSuccessKeepsFilters ==
    /\ clearReqs > 0
    /\ clearReqs' = clearReqs - 1
    /\ businesses' = << >>
    /\ currentPage' = 1
    /\ totalPages' = 1
    /\ lastTotalPages' = None
    /\ last' = Did("clearSuccess", Null,
                   << Toast("success", <<"All business data cleared successfully">>) >>,
                   << >>)
    /\ clearedSince' = TRUE
    /\ UNCHANGED << appVars, mapping, parsing, uploadReqs, loading, error,
                    fetchReqs, overtaken, lookupVars,
                    modalVars, columnMappingData, mappingReqs, mounted,
                    selectedSinceFail, filters >>

\* clearData() after a 2xx response
clearSuccess ==
    /\ clearReqs > 0
    /\ clearReqs' = clearReqs - 1
    /\ businesses' = << >>
    /\ currentPage' = 1
    /\ totalPages' = 1
    /\ filters' = [business_name |-> << >>, industry |-> << >>, location |-> << >>]
    /\ lastTotalPages' = None
    /\ last' = Did("clearSuccess", Null,
                   << Toast("success", <<"All business data cleared successfully">>) >>,
                   << >>)
    /\ clearedSince' = TRUE
    /\ UNCHANGED << appVars, mapping, parsing, uploadReqs, loading, error,
                    fetchReqs, overtaken, lookupVars,
                    modalVars, columnMappingData, mappingReqs, mounted,
                    selectedSinceFail >>

\* clearData() after a rejected request
clearFailure(errorField) ==
    /\ clearReqs > 0
    /\ clearReqs' = clearReqs - 1
    /\ last' = Did("clearFailure", errorField,
                   << Toast("error", << OrElse(errorField, "Error clearing data") >>) >>,
                   << >>)
    /\ UNCHANGED << appVars, mapping, parsing, uploadReqs, listVars, fetchVars,
                    lookupVars, modalVars, columnMappingData, mappingReqs, mounted,
                    lastTotalPages, selectedSinceFail >>

\* the v-if / v-else-if chain above the grid: cards exist only in its v-else
GridShown == ~loading /\ ~Truthy(error) /\ Len(businesses) # 0

\* variant: the first card is taken whatever its id
findIndexFirst(list, businessId) == IF Len(list) > 0 THEN 1 ELSE 0

\* businesses.findIndex(b => b.id === businessId); 0 stands for -1
findIndex(list, businessId) ==
    IF \E k \in 1..Len(list) : list[k].id = businessId
    THEN CHOOSE k \in 1..Len(list) :
             /\ list[k].id = businessId
             /\ \A j \in 1..(k - 1) : list[j].id # businessId
    ELSE 0

\* v-if and :disabled of the Find Website button of the card at position k
\* variant: the button is rendered on every card
FindWebsiteShownAlways(k) == GridShown
FindWebsiteShown(k) == GridShown /\ ~Truthy(businesses[k].website)
FindWebsiteDisabled(k) == isSearchingWebsite = Some(businesses[k].id)

\* findWebsite(businessId) up to its await
findWebsite(k) ==
    /\ Interactive
    /\ k \in 1..Len(businesses)
    /\ FindWebsiteShown(k)
    /\ ~FindWebsiteDisabled(k)
    /\ Len(lookupReqs) < MaxLookup
    /\ isSearchingWebsite' = Some(businesses[k].id)
    /\ lookupReqs' = Append(lookupReqs, businesses[k].id)
    /\ last' = Did("findWebsite", businesses[k].id, << >>,
                   << [kind |-> "website", id |-> businesses[k].id] >>)
    /\ UNCHANGED << appVars, mapping, parsing, uploadReqs, listVars, fetchVars,
                    modalVars, miscVars, lastTotalPages, selectedSinceFail >>

\* variant: a response without a website is reported as an error
lookupSuccessAsError(i, website) ==
    /\ i \in 1..Len(lookupReqs)
    /\ lookupReqs' = RemoveAt(lookupReqs, i)
    /\ LET businessId == lookupReqs[i]
           business == Business(businessId, website)
           index == findIndex(businesses, businessId)
       IN  /\ businesses' = IF index # 0
                            THEN [businesses EXCEPT ![index] = business]
                            ELSE businesses
           /\ last' = Did("lookupSuccess", business,
                          IF index = 0 THEN << >>
                          ELSE IF Truthy(business.website)
                          THEN << Toast("success",
                                   <<"Found website for ">> \o business.business_name) >>
                          ELSE << Toast("error",
                                   <<"No website found for ">> \o business.business_name) >>,
                          << >>)
           /\ isSearchingWebsite' = None
    /\ UNCHANGED << appVars, mapping, parsing, uploadReqs, filters, currentPage,
                    totalPages, fetchVars, modalVars, miscVars, lastTotalPages,
                    selectedSinceFail >>

\* findWebsite(businessId) after a 2xx response carrying the updated record
lookupSuccess(i, website) ==
    /\ i \in 1..Len(lookupReqs)
    /\ lookupReqs' = RemoveAt(lookupReqs, i)
    /\ LET businessId == lookupReqs[i]
           business == Business(businessId, website)
           index == findIndex(businesses, businessId)
       IN  /\ businesses' = IF index # 0
                            THEN [businesses EXCEPT ![index] = business]
                            ELSE businesses
           /\ last' = Did("lookupSuccess", business,
                          IF index = 0 THEN << >>
                          ELSE IF Truthy(business.website)
                          THEN << Toast("success",
                                   <<"Found website for ">> \o business.business_name) >>
                          ELSE << Toast("warning",
                                   <<"No website found for ">> \o business.business_name) >>,
                          << >>)
           /\ isSearchingWebsite' = None
    /\ UNCHANGED << appVars, mapping, parsing, uploadReqs, filters, currentPage,
                    totalPages, fetchVars, modalVars, miscVars, lastTotalPages,
                    selectedSinceFail >>

\* variant: the finally block missing, the busy marker survives a failure
lookupFailureNoFinally(i, errorField) ==
    /\ i \in 1..Len(lookupReqs)
    /\ lookupReqs' = RemoveAt(lookupReqs, i)
    /\ last' = Did("lookupFailure", errorField,
                   << Toast("error", << OrElse(errorField, "Error finding website") >>) >>,
                   << >>)
    /\ UNCHANGED << appVars, mapping, parsing, uploadReqs, listVars, fetchVars,
                    modalVars, miscVars, lastTotalPages, selectedSinceFail,
                    isSearchingWebsite >>

\* findWebsite(businessId) after a rejected request
lookupFailure(i, errorField) ==
    /\ i \in 1..Len(lookupReqs)
    /\ lookupReqs' = RemoveAt(lookupReqs, i)
    /\ isSearchingWebsite' = None
    /\ last' = Did("lookupFailure", errorField,
                   << Toast("error", << OrElse(errorField, "Error finding website") >>) >>,
                   << >>)
    /\ UNCHANGED << appVars, mapping, parsing, uploadReqs, listVars, fetchVars,
                    modalVars, miscVars, lastTotalPages, selectedSinceFail >>

\* ------------------------------------------- EmailModal and its two handlers
PromptTemplate ==
    "Focus on offering modern, responsive web design services that will help their business grow online."

GenerateRequest(business) ==
    [kind |-> "generate_email", business_id |-> business.id,
     user_prompt_template |-> PromptTemplate]

\* openEmailModal(business); v-if mounts a fresh EmailModal whose immediate
\* watcher on show runs generateEmail() up to its await.  generateReqs holds,
\* per awaited request, whether the instance that awaits it is still mounted.
openEmailModal(k) ==
    /\ Interactive
    /\ GridShown
    /\ k \in 1..Len(businesses)
    /\ Len(generateReqs) < MaxGenerate
    /\ selectedBusiness' = Some(businesses[k])
    /\ isEmailModalOpen' = TRUE
    /\ email' = ""
    /\ modalLoading' = TRUE
    /\ modalError' = Null
    /\ generateReqs' = Append(generateReqs, TRUE)
    /\ last' = Did("openEmailModal", businesses[k], << >>,
                   << GenerateRequest(businesses[k]) >>)
    /\ UNCHANGED << appVars, mapping, parsing, uploadReqs, listVars, fetchVars,
                    lookupVars, clipboard, miscVars, lastTotalPages, selectedSinceFail >>

\* close() of the modal and closeEmailModal(); v-if unmounts the instance
closeEmailModal ==
    /\ mounted
    /\ isEmailModalOpen
    /\ isEmailModalOpen' = FALSE
    /\ selectedBusiness' = None
    /\ email' = ""
    /\ modalLoading' = FALSE
    /\ modalError' = Null
    /\ generateReqs' = [i \in 1..Len(generateReqs) |-> FALSE]
    /\ last' = Did("closeEmailModal", Null, << >>, << >>)
    /\ UNCHANGED << appVars, mapping, parsing, uploadReqs, listVars, fetchVars,
                    lookupVars, clipboard, miscVars, lastTotalPages, selectedSinceFail >>

\* what settled a generation request: whether the awaiting instance is still
\* mounted, 2xx or rejected, and the fields of the payload or of the error
Response(live, ok, emailField, errorField, message) ==
    [live |-> live, ok |-> ok, email |-> emailField, error |-> errorField,
     message |-> message]

\* variant: the finally block missing, loading is never switched off on failure
generateCatchNoFinally(i, name, input, text) ==
    /\ generateReqs' = RemoveAt(generateReqs, i)
    /\ IF generateReqs[i]
       THEN modalError' = text
       ELSE UNCHANGED modalError
    /\ last' = Did(name, input, << Toast("error", << text >>) >>, << >>)
    /\ UNCHANGED << email, modalLoading >>

\* the catch and finally blocks of generateEmail(), for the instance awaiting
\* request i; writes to an unmounted instance are not displayed
generateCatch(i, name, input, text) ==
    /\ generateReqs' = RemoveAt(generateReqs, i)
    /\ IF generateReqs[i]
       THEN /\ modalError' = text
            /\ modalLoading' = FALSE
       ELSE UNCHANGED << modalError, modalLoading >>
    /\ last' = Did(name, input, << Toast("error", << text >>) >>, << >>)
    /\ UNCHANGED email

\* variant: whatever the response carries is stored, the email check missing
generateSuccessStoresAny(i, emailField) ==
    /\ i \in 1..Len(generateReqs)
    /\ generateReqs' = RemoveAt(generateReqs, i)
    /\ IF generateReqs[i]
       THEN /\ email' = IF emailField = Null THEN "" ELSE emailField
            /\ modalLoading' = FALSE
       ELSE UNCHANGED << email, modalLoading >>
    /\ last' = Did("generateEmail.try",
                   Response(generateReqs[i], TRUE, emailField, Null, Null),
                   << >>, << >>)
    /\ UNCHANGED modalError
    /\ UNCHANGED << appVars, mapping, parsing, uploadReqs, listVars, fetchVars,
                    lookupVars, isEmailModalOpen, selectedBusiness, clipboard,
                    miscVars, lastTotalPages, selectedSinceFail >>

\* generateEmail() after a 2xx response
generateSuccess(i, emailField) ==
    /\ i \in 1..Len(generateReqs)
    /\ IF ~Truthy(emailField)
       THEN generateCatch(i, "generateEmail.catch",
                          Response(generateReqs[i], TRUE, emailField, Null, Null),
                          "No email content in response")
       ELSE /\ generateReqs' = RemoveAt(generateReqs, i)
            /\ IF generateReqs[i]
               THEN /\ email' = emailField
                    /\ modalLoading' = FALSE
               ELSE UNCHANGED << email, modalLoading >>
            /\ last' = Did("generateEmail.try",
                           Response(generateReqs[i], TRUE, emailField, Null, Null),
                           << >>, << >>)
            /\ UNCHANGED modalError
    /\ UNCHANGED << appVars, mapping, parsing, uploadReqs, listVars, fetchVars,
                    lookupVars, isEmailModalOpen, selectedBusiness, clipboard,
                    miscVars, lastTotalPages, selectedSinceFail >>

\* variant: error.message preferred over the payload's error field
generateFailureMessageFirst(i, errorField, message) ==
    /\ i \in 1..Len(generateReqs)
    /\ generateCatch(i, "generateEmail.catch",
                     Response(generateReqs[i], FALSE, Null, errorField, message),
                     OrElse(message, OrElse(errorField, "Error generating email")))
    /\ UNCHANGED << appVars, mapping, parsing, uploadReqs, listVars, fetchVars,
                    lookupVars, isEmailModalOpen, selectedBusiness, clipboard,
                    miscVars, lastTotalPages, selectedSinceFail >>

\* generateEmail() after a rejected request
generateFailure(i, errorField, message) ==
    /\ i \in 1..Len(generateReqs)
    /\ generateCatch(i, "generateEmail.catch",
                     Response(generateReqs[i], FALSE, Null, errorField, message),
                     OrElse(errorField, OrElse(message, "Error generating email")))
    /\ UNCHANGED << appVars, mapping, parsing, uploadReqs, listVars, fetchVars,
                    lookupVars, isEmailModalOpen, selectedBusiness, clipboard,
                    miscVars, lastTotalPages, selectedSinceFail >>

\* the v-if / v-else-if / v-else chain of the modal body
ModalState ==
    IF ~isEmailModalOpen THEN "idle"
    ELSE IF modalLoading THEN "generating"
    ELSE IF Truthy(modalError) THEN "errored"
    ELSE "displayed"

\* variant: a failed clipboard write is stored as the modal's error
copyToClipboardSetsError(written) ==
    /\ mounted
    /\ ModalState = "displayed"
    /\ clipboard' = IF written THEN email ELSE clipboard
    /\ modalError' = IF written THEN modalError ELSE "Failed to copy email"
    /\ last' = Did("copyToClipboard", written,
                   IF written THEN << Toast("success", <<"Email copied to clipboard">>) >>
                   ELSE << Toast("error", <<"Failed to copy email">>) >>,
                   << >>)
    /\ UNCHANGED << appVars, mapping, parsing, uploadReqs, listVars, fetchVars,
                    lookupVars, isEmailModalOpen, selectedBusiness, email,
                    modalLoading, generateReqs, miscVars,
                    lastTotalPages, selectedSinceFail >>

\* copyToClipboard(): the button exists only in the v-else branch
copyToClipboard(written) ==
    /\ mounted
    /\ ModalState = "displayed"
    /\ clipboard' = IF written THEN email ELSE clipboard
    /\ last' = Did("copyToClipboard", written,
                   IF written THEN << Toast("success", <<"Email copied to clipboard">>) >>
                   ELSE << Toast("error", <<"Failed to copy email">>) >>,
                   << >>)
    /\ UNCHANGED << appVars, mapping, parsing, uploadReqs, listVars, fetchVars,
                    lookupVars, isEmailModalOpen, selectedBusiness, email,
                    modalLoading, modalError, generateReqs, miscVars,
                    lastTotalPages, selectedSinceFail >>

\* ------------------------------------------------- the upload coordinator
\* Here the user maps the i-th header to the i-th required field; every other
\* way of filling the mapper is explored by SpecMapper.
NextUpload ==
    \/ Mount
    \/ \E f \in FileNames \cup {Null} : handleFileSelect(f)
    \/ \E f \in FileNames \cup {Null} : handleFileDrop(f)
    \/ previewFile
    \/ \E i \in 1..MaxParse : parseComplete(i)
    \/ \E i \in 1..MaxParse, m \in ParseErrors : parseError(i, m)
    \/ cancelMapping
    \/ \E i \in 1..Len(requiredFields) :
           selectColumn(requiredFields[i], FileFields["leads.csv"][i])
    \/ confirmMapping
    \/ \E n \in RecordCounts : uploadSuccess(n)
    \/ \E e \in ErrorFields : uploadFailure(e)
    \/ \E i \in 1..MaxFetch : fetchSuccess(i, << >>, 1)

SpecUpload == Init /\ [][NextUpload]_vars

\* --------------------------------------------------------- the column mapper
NextMapper ==
    \/ Mount
    \/ \E f \in FileNames \cup {Null} : handleFileSelect(f)
    \/ previewFile
    \/ \E i \in 1..MaxParse : parseComplete(i)
    \/ cancelMapping
    \/ \E f \in Fields, c \in {"", "biz", "cat", "loc"} : selectColumn(f, c)
    \/ \E f \in Fields, t \in DisplayNames : setDisplayName(f, t)
    \/ confirmMapping

SpecMapper == Init /\ [][NextMapper]_vars

\* ------------------------------------------------------ the website finder
\* Every response here reports a single page: the finder never reads the total.
NextLookup ==
    \/ Mount
    \/ \E ok \in BOOLEAN : mappingResponse(ok)
    \/ \E i \in 1..MaxFetch, p \in ResponsePages : fetchSuccess(i, p, 1)
    \/ \E i \in 1..MaxFetch, e \in ErrorFields : fetchFailure(i, e)
    \/ \E f \in {"business_name"}, t \in FilterTexts : filterInput(f, t)
    \/ \E k \in 1..Cardinality(BusinessIds) : findWebsite(k)
    \/ \E i \in 1..MaxLookup, w \in Websites : lookupSuccess(i, w)
    \/ \E i \in 1..MaxLookup, e \in ErrorFields : lookupFailure(i, e)

SpecLookup == Init /\ [][NextLookup]_vars

\* ------------------------------------------------------------ the directory
NextDirectory ==
    \/ Mount
    \/ \E f \in DOMAIN filters, t \in FilterTexts : filterInput(f, t)
    \/ clickPrevious
    \/ clickNext
    \/ \E i \in 1..MaxFetch, p \in ResponsePages, t \in 0..MaxTotalPages :
           fetchSuccess(i, p, t)
    \/ \E i \in 1..MaxFetch, e \in ErrorFields : fetchFailure(i, e)
    \/ \E a \in BOOLEAN : confirmClear(a)
    \/ clearSuccess
    \/ \E e \in ErrorFields : clearFailure(e)

SpecDirectory == Init /\ [][NextDirectory]_vars

\* --------------------------------------------------- filtering and fetching
\* The directory's three filter inputs and its paging, with responses whose
\* total is one page or the largest.
NextFilters ==
    \/ Mount
    \/ \E f \in DOMAIN filters, t \in FilterTexts : filterInput(f, t)
    \/ clickPrevious
    \/ clickNext
    \/ \E i \in 1..MaxFetch, p \in ListedPages, t \in {1, MaxTotalPages} :
           fetchSuccess(i, p, t)
    \/ \E i \in 1..MaxFetch, e \in ErrorFields : fetchFailure(i, e)

SpecFilters == Init /\ [][NextFilters]_vars

\* ---------------------------------------------------------------- paging
\* The directory with the user typing in the name filter only: the three
\* filter inputs run the same handler, and page state ignores which one fired.
NextPaging ==
    \/ Mount
    \/ \E t \in FilterTexts : filterInput("business_name", t)
    \/ clickPrevious
    \/ clickNext
    \/ \E i \in 1..MaxFetch, p \in ListedPages, t \in 0..MaxTotalPages :
           fetchSuccess(i, p, t)
    \/ \E i \in 1..MaxFetch, e \in ErrorFields : fetchFailure(i, e)
    \/ \E a \in BOOLEAN : confirmClear(a)
    \/ clearSuccess
    \/ \E e \in ErrorFields : clearFailure(e)

SpecPaging == Init /\ [][NextPaging]_vars

\* ----------------------------------------------------------- the email modal
NextEmail ==
    \/ Mount
    \/ \E ok \in BOOLEAN : mappingResponse(ok)
    \/ \E i \in 1..MaxFetch, p \in ResponsePages, t \in 0..MaxTotalPages :
           fetchSuccess(i, p, t)
    \/ \E k \in 1..Cardinality(BusinessIds) : openEmailModal(k)
    \/ closeEmailModal
    \/ \E i \in 1..MaxGenerate, e \in Emails : generateSuccess(i, e)
    \/ \E i \in 1..MaxGenerate, e \in ErrorFields, m \in ErrorMessages :
           generateFailure(i, e, m)
    \/ \E w \in BOOLEAN : copyToClipboard(w)

SpecEmail == Init /\ [][NextEmail]_vars

\* ------------------------------------------------ every request is answered
\* One session through the four kinds of awaited request that own a busy
\* indicator.  The file is the CSV, mapped header by header as in NextUpload;
\* the lookup and the modal are those of the first card; responses arrive in
\* the order the requests were issued.  A pending promise settles when its
\* response or its error arrives, and the event loop then runs the
\* continuation: the oldest request of each kind is answered at some point,
\* which answers every request in turn.  The modal is left open, so that its
\* loading flag can only be switched off by generateEmail().
Listed == << Business(0, Null), Business(1, Null) >>

FetchSettles(i) ==
    \/ fetchSuccess(i, Listed, 1)
    \/ fetchFailure(i, Null)

UploadSettles ==
    \/ \E n \in RecordCounts : uploadSuccess(n)
    \/ uploadFailure(Null)

LookupSettles(i) ==
    \/ lookupSuccess(i, Null)
    \/ lookupFailure(i, Null)

GenerateSettles(i) ==
    \/ generateSuccess(i, "Hello")
    \/ generateFailure(i, Null, "Network Error")

NextAnswered ==
    \/ Mount
    \/ handleFileSelect("leads.csv")
    \/ previewFile
    \/ parseComplete(1)
    \/ \E i \in 1..Len(requiredFields) :
           selectColumn(requiredFields[i], FileFields["leads.csv"][i])
    \/ confirmMapping
    \/ UploadSettles
    \/ FetchSettles(1)
    \/ findWebsite(1)
    \/ LookupSettles(1)
    \/ openEmailModal(1)
    \/ GenerateSettles(1)

SpecAnswered ==
    /\ Init /\ [][NextAnswered]_vars
    /\ WF_vars(UploadSettles)
    /\ WF_vars(FetchSettles(1))
    /\ WF_vars(LookupSettles(1))
    /\ WF_vars(GenerateSettles(1))

\* ==================================================================== claims

\* a lookup request for this record is awaited
LookupInFlight(id) == \E i \in 1..Len(lookupReqs) : lookupReqs[i] = id

\* C1: a record whose website lookup is in flight keeps its busy state until
\* its own request completes, whatever lookups start or complete for other
\* records in between.
C1_IndependentBusy ==
    \A id \in BusinessIds : LookupInFlight(id) => isSearchingWebsite = Some(id)

\* C2: while the total page count comes from a response with total_pages = N,
\* Next is disabled exactly on page N and Previous exactly on page 1.
C2_PaginationBoundaries ==
    lastTotalPages # None =>
        /\ NextDisabled <=> currentPage = lastTotalPages[1]
        /\ PreviousDisabled <=> currentPage = 1

\* C2 witness: on the last page of two, after page changes, nothing in flight
C2_OnLastPage ==
    /\ lastTotalPages = Some(2)
    /\ currentPage = 2
    /\ PaginationShown
    /\ NextDisabled
    /\ ~PreviousDisabled
    /\ fetchReqs = << >>

\* a directory fetch for the current page and filters was just sent and is awaited
FetchIssued ==
    /\ last.sent = << Params(currentPage, filters) >>
    /\ Len(fetchReqs) > 0
    /\ fetchReqs[Len(fetchReqs)] = Params(currentPage, filters)

\* C3 as stated: after a successful upload response the file selection, the
\* stored mapping and the upload status are all reset and a fetch is issued.
C3_AllReset ==
    last.op = "uploadSuccess" =>
        /\ selectedFile = Null
        /\ columnMapping = None
        /\ uploadStatus = None
        /\ FetchIssued

\* C3 amended: after a successful upload response the file selection and the
\* stored mapping are reset, the upload status holds the success message with
\* the reported count, isUploading is off and a directory fetch is issued.
C3_ResetAndReport ==
    last.op = "uploadSuccess" =>
        /\ selectedFile = Null
        /\ columnMapping = None
        /\ uploadStatus = Some(Status("success",
               <<"Successfully uploaded ", ToString(last.input), " records">>))
        /\ ~isUploading
        /\ FetchIssued

\* C3 witness: an upload has just succeeded
C3_Uploaded == last.op = "uploadSuccess" /\ last.input = 3 /\ loading

\* C4: a failed upload shows its error message (the backend's error field, or
\* 'Error uploading file') in the upload status slot and as an error toast.
C4_FailureShownInline ==
    last.op = "uploadFailure" =>
        /\ last.toasts = << Toast("error", << OrElse(last.input, "Error uploading file") >>) >>
        /\ uploadStatus # None
        /\ uploadStatus[1].type = "error"
        /\ uploadStatus[1].message = << OrElse(last.input, "Error uploading file") >>

\* an upload request was sent by the last handler
UploadIssued == \E k \in 1..Len(last.sent) : last.sent[k].kind = "upload"

\* C5 as stated: after a failed upload no upload request is issued until a
\* file has been selected or dropped again.
C5_RetryFromSelection == UploadIssued => selectedSinceFail

\* C5 amended: a failed upload leaves the file selection and the stored
\* mapping as they were, and upload requests are issued by a mapping
\* confirmation and by nothing else; so the retry starts at the preview step.
C5_FailureKeepsSelection ==
    /\ [][ (\E e \in ErrorFields : uploadFailure(e)) =>
              (selectedFile' = selectedFile /\ columnMapping' = columnMapping) ]_vars
    /\ [](UploadIssued => last.op = "confirmMapping")

\* C5 witness: an upload retried after a failure without a new selection
C5_RetriedWithoutSelecting ==
    /\ UploadIssued
    /\ ~selectedSinceFail
    /\ uploadError = Null

\* C6: every upload request carries a text/csv file; selecting or dropping a
\* file of another type sends nothing and sets an error-type upload status.
C6_OnlyCsvUploaded ==
    /\ \A k \in 1..Len(last.sent) :
           last.sent[k].kind = "upload" => FileType[last.sent[k].file] = "text/csv"
    /\ selectedFile # Null => FileType[selectedFile] = "text/csv"
    /\ (/\ last.op \in {"handleFileSelect", "handleFileDrop"}
        /\ last.input # Null
        /\ FileType[last.input] # "text/csv")
       => /\ last.sent = << >>
          /\ uploadStatus # None
          /\ uploadStatus[1].type = "error"

\* C6 witness: an upload was sent although a non-CSV file had been offered
C6_CsvSent ==
    /\ UploadIssued
    /\ FileType[last.sent[1].file] = "text/csv"

\* C7: confirmation is enabled, and confirm emitted, exactly when each of the
\* three required fields has a non-empty source column; labels play no part.
C7_ConfirmIffAllMapped ==
    /\ showColumnMapping =>
          (~ConfirmDisabled <=>
              /\ mapping[1]["business_name"].column # ""
              /\ mapping[1]["industry"].column # ""
              /\ mapping[1]["location"].column # "")
    /\ last.op = "confirmMapping" =>
          /\ last.input["business_name"].column # ""
          /\ last.input["industry"].column # ""
          /\ last.input["location"].column # ""

\* C7 witness: confirmation enabled with an emptied label
C7_EnabledWithEmptyLabel ==
    /\ showColumnMapping
    /\ ~ConfirmDisabled
    /\ mapping[1]["industry"].displayName = ""

\* C8: a header held by one required field is disabled for the other two and
\* enabled for the holder, so no two fields hold the same non-empty header.
C8_NoSharedHeader ==
    showColumnMapping =>
        \A f \in Fields, g \in Fields :
            (f # g /\ mapping[1][f].column # "") =>
                /\ mapping[1][f].column # mapping[1][g].column
                /\ OptionDisabled(mapping[1], g, mapping[1][f].column)
                /\ ~OptionDisabled(mapping[1], f, mapping[1][f].column)

\* C8 witness: all three fields mapped, after a field gave a header away
C8_AllMapped ==
    /\ showColumnMapping
    /\ isMappingValid(mapping[1])
    /\ mapping[1]["business_name"].column = "loc"

\* the generation request the mounted modal awaits is in flight
LiveGeneration == \E i \in 1..Len(generateReqs) : generateReqs[i]

\* C9: opening the modal for a record sends exactly one generation request
\* with that record's id and the fixed template and enters generating;
\* loading is on exactly while that request is awaited; generating is left
\* only for displayed (the try block completed) or errored (the catch block).
C9_StateMachine ==
    /\ [](/\ last.op = "openEmailModal" =>
                /\ last.sent = << GenerateRequest(selectedBusiness[1]) >>
                /\ last.sent[1].user_prompt_template = PromptTemplate
                /\ ModalState = "generating"
          /\ (\E k \in 1..Len(last.sent) : last.sent[k].kind = "generate_email")
                 => last.op = "openEmailModal"
          /\ isEmailModalOpen => (modalLoading <=> LiveGeneration)
          /\ ~isEmailModalOpen => ~LiveGeneration
          /\ Cardinality({i \in 1..Len(generateReqs) : generateReqs[i]}) <= 1)
    /\ [][ (ModalState = "generating" /\ isEmailModalOpen') =>
              \/ ModalState' = "generating"
              \/ ModalState' = "displayed" /\ last'.op = "generateEmail.try"
              \/ ModalState' = "errored" /\ last'.op = "generateEmail.catch" ]_vars

\* C9 witness: the modal displays an email its own request returned
C9_Displayed ==
    /\ ModalState = "displayed"
    /\ last.op = "generateEmail.try"
    /\ last.input.live
    /\ email = "Hello"

\* C10: a generation call rejected with the payload {error: "x"} leaves the
\* modal that awaits it errored with the text "x", loading off, and fires an
\* error toast with the same text.
C10_ErrorPayloadShown ==
    (/\ last.op = "generateEmail.catch"
     /\ ~last.input.ok
     /\ last.input.error = "x"
     /\ last.input.live)
    => /\ ModalState = "errored"
       /\ modalError = "x"
       /\ ~modalLoading
       /\ last.toasts = << Toast("error", <<"x">>) >>

\* C10 witness: the payload {error: "x"} arrived next to a transport message
C10_Errored ==
    /\ last.op = "generateEmail.catch"
    /\ last.input.live
    /\ last.input.error = "x"
    /\ last.input.message = "Network Error"
    /\ modalError = "x"

\* C11: when a lookup response carries a record without a website and that
\* record is in the displayed set, the displayed record has no website and
\* exactly one notification was fired, a warning naming the record.
C11_NoWebsiteWarns ==
    (/\ last.op = "lookupSuccess"
     /\ ~Truthy(last.input.website)
     /\ findIndex(businesses, last.input.id) # 0)
    => /\ ~Truthy(businesses[findIndex(businesses, last.input.id)].website)
       /\ last.toasts = << Toast("warning",
              <<"No website found for ">> \o last.input.business_name) >>
       /\ \A k \in 1..Len(last.toasts) : last.toasts[k].type # "error"

\* C11 witness: record 1 is displayed, its lookup returned no website
C11_Warned ==
    /\ last.op = "lookupSuccess"
    /\ last.input = Business(1, Null)
    /\ findIndex(businesses, 1) = 2
    /\ businesses[2].website = Null
    /\ last.toasts # << >>
    /\ last.toasts[1].type = "warning"

\* C12: a failed lookup clears the busy marker, fires one error notification
\* (the backend's error field, or 'Error finding website') and leaves the
\* displayed set, the targeted record included, as it was.
C12_LookupFailureIsolated ==
    /\ [][ (\E i \in 1..MaxLookup, e \in ErrorFields : lookupFailure(i, e)) =>
              businesses' = businesses ]_vars
    /\ [](last.op = "lookupFailure" =>
              /\ isSearchingWebsite = None
              /\ \A k \in 1..Len(businesses) : ~FindWebsiteDisabled(k)
              /\ last.toasts =
                    << Toast("error", << OrElse(last.input, "Error finding website") >>) >>)

\* C12 witness: a lookup just failed with the payload's error field, the
\* targeted records still listed without a website
C12_LookupFailed ==
    /\ last.op = "lookupFailure"
    /\ last.input = "x"
    /\ GridShown
    /\ businesses[1].website = Null
    /\ isSearchingWebsite = None

\* the request a fetch issued now carries: page, per_page and the filter
\* strings in lower case (the only upper-case letter typed here is "A")
C13_Expected ==
    [kind |-> "fetch",
     page |-> currentPage,
     per_page |-> 10,
     business_name |-> [i \in 1..Len(filters.business_name) |->
         IF filters.business_name[i] = "A" THEN "a" ELSE filters.business_name[i]],
     industry |-> [i \in 1..Len(filters.industry) |->
         IF filters.industry[i] = "A" THEN "a" ELSE filters.industry[i]],
     location |-> [i \in 1..Len(filters.location) |->
         IF filters.location[i] = "A" THEN "a" ELSE filters.location[i]]]

ClearIssued == \E k \in 1..Len(last.sent) : last.sent[k].kind = "clear"

\* C14: a clear request is sent only by an accepted confirmation prompt (a
\* declined prompt sends nothing); a successful clear leaves the displayed
\* set empty, page 1 of 1 and the three filters empty; a failed clear leaves
\* the displayed set, the page state and the filters as they were and fires
\* one error notification.
C14_ConfirmedClear ==
    /\ [](/\ ClearIssued => (last.op = "confirmClear" /\ last.input = TRUE)
          /\ (last.op = "confirmClear" /\ last.input = FALSE) => last.sent = << >>
          /\ last.op = "clearSuccess" =>
                /\ businesses = << >>
                /\ currentPage = 1
                /\ totalPages = 1
                /\ \A f \in DOMAIN filters : filters[f] = << >>
          /\ last.op = "clearFailure" =>
                last.toasts =
                    << Toast("error", << OrElse(last.input, "Error clearing data") >>) >>)
    /\ [][ clearReqs' > clearReqs => (last'.op = "confirmClear" /\ last'.input = TRUE) ]_vars
    /\ [][ (\E e \in ErrorFields : clearFailure(e)) =>
              /\ businesses' = businesses
              /\ currentPage' = currentPage
              /\ totalPages' = totalPages
              /\ filters' = filters ]_vars

\* C14 witness: cleared from page 2 of 2 with a filter typed
C14_Cleared ==
    /\ last.op = "clearSuccess"
    /\ lastTotalPages = None
    /\ businesses = << >>
    /\ currentPage = 1
    /\ \E i \in 1..Len(fetchReqs) :
           fetchReqs[i].page = 2 /\ fetchReqs[i].business_name = <<"a">>

\* C15: the clipboard copy runs only in the displayed state and, whether the
\* write succeeds or fails, leaves email, loading and error (and so the
\* modal's state) as they were; it fires exactly one notification of its
\* own, a success after a write and an error after a failed write.
C15_CopyLeavesGeneration ==
    /\ [][ (\E w \in BOOLEAN : copyToClipboard(w)) =>
              /\ ModalState = "displayed"
              /\ ModalState' = "displayed"
              /\ email' = email
              /\ modalLoading' = modalLoading
              /\ modalError' = modalError
              /\ generateReqs' = generateReqs ]_vars
    /\ [](last.op = "copyToClipboard" =>
              /\ ModalState = "displayed"
              /\ last.sent = << >>
              /\ last.toasts =
                    IF last.input
                    THEN << Toast("success", <<"Email copied to clipboard">>) >>
                    ELSE << Toast("error", <<"Failed to copy email">>) >>)

\* C15 witness: a failed copy of a displayed email
C15_CopyFailed ==
    /\ last.op = "copyToClipboard"
    /\ last.input = FALSE
    /\ ModalState = "displayed"
    /\ email = "Hello"
    /\ clipboard = Null

\* the handlers of previewing, editing the mapping and cancelling
C16_LocalOps ==
    {"previewFile", "parseComplete", "parseError", "selectColumn",
     "setDisplayName", "cancelMapping"}

\* C16: an upload request is issued only by the handler of the mapper's
\* confirm event, emitted with all three source columns selected from a
\* mapper that a parsed preview brought up, and it carries the confirmed
\* mapping, field by field; previewing, editing the mapping and cancelling
\* send nothing and leave every awaited request as it was.
C16_UploadOnlyOnConfirm ==
    /\ [](UploadIssued =>
              /\ last.op = "confirmMapping"
              /\ Len(last.sent) = 1
              /\ \A f \in Fields : last.input[f].column # ""
              /\ csvColumns # << >>
              /\ columnMapping = Some(last.input)
              /\ Len(last.sent[1].column_mapping) = Len(requiredFields)
              /\ \A i \in 1..Len(requiredFields) :
                     last.sent[1].column_mapping[i] =
                         << requiredFields[i],
                            last.input[requiredFields[i]].column,
                            last.input[requiredFields[i]].displayName >>)
    /\ [](last.op \in C16_LocalOps => last.sent = << >>)
    /\ [][ uploadReqs' > uploadReqs =>
              (showColumnMapping /\ isMappingValid(mapping[1]) /\ UploadIssued') ]_vars
    /\ [][ last'.op \in C16_LocalOps =>
              /\ uploadReqs' = uploadReqs
              /\ fetchReqs' = fetchReqs
              /\ mappingReqs' = mappingReqs
              /\ lookupReqs' = lookupReqs
              /\ clearReqs' = clearReqs
              /\ generateReqs' = generateReqs ]_vars

\* C16 witness: an upload carrying a mapping the user rearranged and relabelled
C16_UploadedAsMapped ==
    /\ UploadIssued
    /\ last.input["business_name"].column = "loc"
    /\ last.input["industry"].displayName = ""
    /\ last.sent[1].column_mapping[1] = <<"business_name", "loc", "Business Name">>
    /\ uploadReqs = 2

\* C17: cancelling the mapper hides it, empties the preview rows and the
\* column headers, drops the stored mapping, sends nothing, leaves every
\* awaited request and the selected file as they were.
C17_CancelClearsPreview ==
    /\ [][ cancelMapping =>
              /\ showColumnMapping
              /\ ~showColumnMapping'
              /\ csvPreviewData' = << >>
              /\ csvColumns' = << >>
              /\ columnMapping' = None
              /\ mapping' = None
              /\ selectedFile' = selectedFile
              /\ uploadReqs' = uploadReqs
              /\ fetchReqs' = fetchReqs
              /\ parsing' = parsing ]_vars
    /\ [](last.op = "cancelMapping" =>
              /\ last.sent = << >>
              /\ ~showColumnMapping
              /\ csvPreviewData = << >>
              /\ csvColumns = << >>
              /\ columnMapping = None)

\* C17 witness: cancelled on the retry after a failed upload, which had left
\* the stored mapping in place; the file is still selected
C17_CancelledRetry ==
    /\ last.op = "cancelMapping"
    /\ selectedFile = "leads.csv"
    /\ ~selectedSinceFail
    /\ uploadError # Null
    /\ columnMapping = None

\* C18: after a successful upload the upload status is of type success and
\* its message reports the record count of the response; the file selection
\* and the stored mapping are cleared.
C18_SuccessReportsCount ==
    last.op = "uploadSuccess" =>
        /\ uploadStatus # None
        /\ uploadStatus[1].type = "success"
        /\ \E k \in 1..Len(uploadStatus[1].message) :
               uploadStatus[1].message[k] = ToString(last.input)
        /\ selectedFile = Null
        /\ columnMapping = None

\* C18 witness: the status reports the 3 records of the response
C18_ThreeReported ==
    /\ last.op = "uploadSuccess"
    /\ uploadStatus = Some(Status("success", <<"Successfully uploaded ", "3", " records">>))
    /\ selectedFile = Null
    /\ uploadReqs = 0

\* C19: a lookup request is issued only for a record that is in the displayed
\* grid with no website at that moment, and by the Find Website handler only.
C19_LookupOnlyWithoutWebsite ==
    /\ [][ lookupReqs' # lookupReqs /\ Len(lookupReqs') > Len(lookupReqs) =>
              /\ Len(lookupReqs') = Len(lookupReqs) + 1
              /\ last'.op = "findWebsite"
              /\ ~loading /\ ~Truthy(error)
              /\ \E k \in 1..Len(businesses) :
                     /\ businesses[k].id = lookupReqs'[Len(lookupReqs')]
                     /\ businesses[k].website \in {Null, ""} ]_vars
    /\ [](last.op = "findWebsite" =>
              /\ last.sent = << [kind |-> "website", id |-> last.input] >>
              /\ \A k \in 1..Len(businesses) :
                     businesses[k].id = last.input => businesses[k].website \in {Null, ""})

\* C19 witness: record 0 shows a website, a lookup was started for record 1
C19_LookupNextToWebsite ==
    /\ last.op = "findWebsite"
    /\ last.input = 1
    /\ businesses[1].website = "http://w"
    /\ businesses[2].website = Null
    /\ lookupReqs = << 1 >>

\* C20: the response of a fetch that is answered after a later-issued fetch
\* has settled is applied like any other: the displayed set and the total
\* page count become that response's values, also when the request was made
\* for a page or filters that are no longer the current ones.  No handler
\* cancels an awaited fetch: one leaves only when its own response arrives.
C20_LateResponseApplied ==
    /\ []((last.op = "fetchSuccess" /\ last.input.overtaken) =>
              /\ businesses = last.input.businesses
              /\ totalPages = last.input.total_pages)
    /\ [][ Len(fetchReqs') < Len(fetchReqs) =>
              /\ last'.op \in {"fetchSuccess", "fetchFailure"}
              /\ Len(fetchReqs') = Len(fetchReqs) - 1 ]_vars

\* C20 witness: nothing is awaited, and what is displayed is the response to
\* an overtaken fetch whose page or filters are not the current ones
C20_StaleDisplayed ==
    /\ last.op = "fetchSuccess"
    /\ last.input.overtaken
    /\ ~last.input.current
    /\ fetchReqs = << >>
    /\ businesses # << >>
    /\ filters.business_name = <<"A">>
    /\ totalPages = MaxTotalPages

\* C21: a successful lookup response puts the returned record in the place of
\* the displayed record with the requested id and leaves every other
\* record, the filters and the page state as they were; when no displayed
\* record has that id the displayed set is unchanged and nothing is notified.
C21_ReplacesOneRecord ==
    [][ last'.op = "lookupSuccess" =>
          /\ filters' = filters
          /\ currentPage' = currentPage
          /\ totalPages' = totalPages
          /\ Len(businesses') = Len(businesses)
          /\ \A k \in 1..Len(businesses) :
                 businesses'[k] = IF businesses[k].id = last'.input.id
                                  THEN last'.input
                                  ELSE businesses[k]
          /\ (\A k \in 1..Len(businesses) : businesses[k].id # last'.input.id) =>
                 (businesses' = businesses /\ last'.toasts = << >>) ]_vars

\* C21 witness: record 1 got its website, record 0 next to it is untouched
C21_SecondReplaced ==
    /\ last.op = "lookupSuccess"
    /\ last.input = Business(1, "http://w")
    /\ businesses = << Business(0, Null), Business(1, "http://w") >>
    /\ filters.business_name = <<"A">>

\* C22: in every state of the mounted directory the current page lies
\* between 1 and the total page count.
C22_PageWithinTotal ==
    mounted => (1 <= currentPage /\ currentPage <= totalPages)

\* C23: at most one upload request is awaited at any time, and no upload is
\* started while isUploading is on.
C23_SingleUpload ==
    /\ uploadReqs <= 1
    /\ (UploadIssued /\ last.op = "confirmMapping") => uploadReqs = 1

\* C24: no record has two lookups awaited at once: while a record's lookup
\* is in flight a second one for it cannot be started.
C24_OneLookupPerRecord ==
    \A id \in BusinessIds :
        Cardinality({i \in 1..Len(lookupReqs) : lookupReqs[i] = id}) <= 1

\* C25: the loading flag is on whenever a directory fetch is awaited.
C25_LoadingWhileFetching == Len(fetchReqs) > 0 => loading

\* C26: from a successful clear until the next fetch is issued the displayed
\* set is empty, whatever responses arrive in between.
C26_StaysCleared == clearedSince => businesses = << >>

\* the message of the else branch of each of the two handlers
C27_RejectMessage ==
    [op \in {"handleFileSelect", "handleFileDrop"} |->
        IF op = "handleFileSelect" THEN <<"Please select a valid CSV file">>
        ELSE <<"Please drop a valid CSV file">>]

\* the step recorded in did took the else branch: no file, or not text/csv
C27_IsRejection(did) ==
    /\ did.op \in {"handleFileSelect", "handleFileDrop"}
    /\ IF did.input = Null THEN TRUE ELSE FileType[did.input] # "text/csv"

\* C27: a selection or drop that is rejected (no file, or a file that is not
\* text/csv) keeps the file chosen before and every other field of the upload
\* card and of the directory, and sets only the inline status to the rejection
\* message; the Preview button of a CSV chosen before stays enabled.
C27_RejectionKeepsSelection ==
    [][ C27_IsRejection(last') =>
          /\ selectedFile' = selectedFile
          /\ uploadStatus' = Some(Status("error", C27_RejectMessage[last'.op]))
          /\ UNCHANGED << uploadError, isUploading, showColumnMapping,
                          csvPreviewData, csvColumns, columnMapping, mapping,
                          parsing, uploadReqs, dirVars >>
          /\ ~(selectedFile = Null \/ isUploading) =>
                 ~(selectedFile' = Null \/ isUploading')
          /\ last'.toasts = << >> /\ last'.sent = << >> ]_vars

C27_PreviewedAfterRejection ==
    /\ last.op = "previewFile"
    /\ selectedFile = "leads.csv"
    /\ parsing = << "leads.csv" >>
    /\ uploadStatus = Some(Status("error", <<"Please drop a valid CSV file">>))

\* C28: when every request is answered, each busy indicator that is on goes
\* off again: loading, isUploading, the lookup marker and the modal's loading
\* flag; the response that switches it off may be a success or a failure.
C28_Answers ==
    {"fetchSuccess", "fetchFailure", "uploadSuccess", "uploadFailure",
     "lookupSuccess", "lookupFailure", "generateEmail.try", "generateEmail.catch"}

C28_BusyReturnsToIdle ==
    /\ loading ~> ~loading
    /\ isUploading ~> ~isUploading
    /\ (isSearchingWebsite # None) ~> (isSearchingWebsite = None)
    /\ modalLoading ~> ~modalLoading
    /\ [](/\ last.op \in {"fetchSuccess", "fetchFailure"} => ~loading
          /\ last.op \in {"uploadSuccess", "uploadFailure"} => ~isUploading
          /\ last.op \in {"lookupSuccess", "lookupFailure"} => isSearchingWebsite = None
          /\ (/\ last.op \in {"generateEmail.try", "generateEmail.catch"}
              /\ last.input.live) => ~modalLoading)

\* C28 witness: a failed generation has switched the modal's loading off and
\* nothing is awaited any more
C28_AllIdle ==
    /\ last.op = "generateEmail.catch"
    /\ last.input.live /\ ~last.input.ok
    /\ isEmailModalOpen /\ ~modalLoading
    /\ ~loading /\ ~isUploading /\ isSearchingWebsite = None
    /\ error # Null /\ uploadError # Null
    /\ fetchReqs = << >> /\ lookupReqs = << >> /\ generateReqs = << >> /\ uploadReqs = 0

\* C29: a failed fetch keeps the displayed set, the total page count, the
\* page and the filters, sets the inline error to the backend's error field
\* or, without one, to 'Error fetching businesses', and fires an error
\* notification with the same text; every fetch that starts clears the
\* inline error.
C29_FailureKeepsList ==
    [][ /\ last'.op = "fetchFailure" =>
              /\ businesses' = businesses
              /\ totalPages' = totalPages
              /\ currentPage' = currentPage
              /\ filters' = filters
              /\ error' = IF last'.input \in {Null, ""}
                          THEN "Error fetching businesses"
                          ELSE last'.input
              /\ last'.toasts = << Toast("error", << error' >>) >>
        /\ Len(fetchReqs') > Len(fetchReqs) => error' = Null ]_vars

\* C29 witness: the backend's text is shown inline while the two records and
\* the two pages of the last successful fetch are kept
C29_FailedWithList ==
    /\ last.op = "fetchFailure"
    /\ last.input = "x"
    /\ error = "x"
    /\ businesses = << Business(0, Null), Business(1, Null) >>
    /\ totalPages = MaxTotalPages
    /\ currentPage = MaxTotalPages

\* C30: the try block of generateEmail() completes, and stores the email,
\* only for a 2xx response with a non-empty email, and nothing else writes a
\* text into the stored email; a 2xx response whose email is missing or
\* empty leaves the modal that awaits it errored with 'No email content in
\* response', fires that text as an error notification and keeps the stored
\* email.
C30_EmailOnlyIfPresent ==
    [][ /\ last'.op = "generateEmail.try" =>
              /\ last'.input.ok
              /\ Truthy(last'.input.email)
              /\ last'.input.live => (email' = last'.input.email /\ ModalState' = "displayed")
        /\ (last'.op = "generateEmail.catch" /\ last'.input.ok) =>
              /\ ~Truthy(last'.input.email)
              /\ email' = email
              /\ last'.toasts = << Toast("error", <<"No email content in response">>) >>
              /\ last'.input.live =>
                     /\ ModalState' = "errored"
                     /\ modalError' = "No email content in response"
        /\ (email' # email /\ email' # "") =>
              (last'.op = "generateEmail.try" /\ last'.input.live) ]_vars

\* C30 witness: a 2xx response with an empty email has left the open modal
\* errored
C30_EmptyEmailErrored ==
    /\ last.op = "generateEmail.catch"
    /\ last.input.ok /\ last.input.live
    /\ last.input.email = ""
    /\ ModalState = "errored"
    /\ modalError = "No email content in response"
    /\ email = ""

====
